---- MODULE Spec2Model ----
(***************************************************************************)
(* Model of src/tx.py: the automatic transfer loop that funds the Holder   *)
(* (address1) with gas from the Funder (address2) and then sweeps the      *)
(* Holder's token balance to the Funder, cycle after cycle, until SIGINT.  *)
(*                                                                         *)
(* The remote node is the environment: every value read over RPC (gas      *)
(* price, native balance, token balance) is drawn afresh at the read, and  *)
(* every RPC call may raise.  The node's transaction count of an account   *)
(* is the number of its mined transactions ("latest" block), which grows   *)
(* only when a broadcast transaction is mined.                             *)
(***************************************************************************)
EXTENDS Integers, Sequences, FiniteSets, TLC

\* ---- bounds of the model ------------------------------------------------
MaxCycles == 2
MaxGasPrice == 2
MaxTokens == 1

\* ---- constants of the program -------------------------------------------
estimate_gas_cost == 150000
TransferGas == 21000
ChainId == 10
address1 == "address1"
address2 == "address2"
TOKEN_ADDRESS == "TOKEN_ADDRESS"

Accounts == {address1, address2}

\* ---- values the node can answer with -------------------------------------
GasPrices == 1..MaxGasPrice

NativeBalances ==
    {0} \cup UNION { { estimate_gas_cost * p - 1,
                       estimate_gas_cost * p,
                       (estimate_gas_cost + TransferGas) * p } : p \in GasPrices }

TokenBalances == 0..MaxTokens

Unread == 0 - 1

NoData == [fn |-> "none", to |-> "none", amount |-> 0]

NoTx == [from |-> "none", to |-> "none", value |-> 0, gas |-> 0, gasPrice |-> 0,
         nonce |-> 0, chainId |-> 0, data |-> NoData]

VARIABLES
    pc,              \* position of the main thread
    running,         \* the module-level flag
    sigint,          \* a SIGINT has been delivered
    farewell,        \* the farewell line has been printed
    cycle_count,
    error,           \* exception raised in the current cycle ("none" if none)
    caught,          \* cycles ended by one of the except clauses
    needed,          \* shortfall carried by the insufficient-balance error
    gate_balance,    \* token balance read by the gate of the cycle
    gas_price,       \* send_gas_fee: gas price sample
    required_eth,    \* send_gas_fee: gas_cost * gas_price
    sender_balance,  \* send_gas_fee: balance of address2
    balance,         \* transfer_all_tokens: token balance of address1
    tx,              \* transaction under construction in the current call
    eth_sent,        \* amount returned by send_gas_fee
    txCount,         \* node: mined transactions per account
    broadcasts,      \* node: transactions accepted by send_raw_transaction
    trace            \* what the current cycle has done so far

vars == <<pc, running, sigint, farewell, cycle_count, error, caught, needed, gate_balance,
          gas_price, required_eth, sender_balance, balance, tx, eth_sent,
          txCount, broadcasts, trace>>

proc == <<running, sigint, farewell, caught>>
sgfLocals == <<gas_price, required_eth, sender_balance, needed, eth_sent>>
node == <<txCount, broadcasts>>

\* ---- pure parts of the code ----------------------------------------------

InsufficientBalance_Mutant(bal, req) == bal + 1 < req

InsufficientBalance(bal, req) == bal < req

EmptyBalance_Mutant(bal) == bal < 0

EmptyBalance(bal) == bal = 0

HasTokens_Mutant(bal) == bal >= 0

HasTokens(bal) == bal > 0

CaughtAtCycle_Mutant(e) ==
    e \in {"ValueError:insufficient", "ValueError:empty", "ContractLogicError"}

CaughtAtCycle(e) ==
    e \in {"ValueError:insufficient", "ValueError:empty", "ContractLogicError", "Exception"}

GasFeeTx_Mutant(g, req, n) ==
    [from |-> address2, to |-> address1, value |-> TransferGas * g, gas |-> TransferGas,
     gasPrice |-> g, nonce |-> n, chainId |-> ChainId, data |-> NoData]

GasFeeTx(g, req, n) ==
    [from |-> address2, to |-> address1, value |-> req, gas |-> TransferGas,
     gasPrice |-> g, nonce |-> n, chainId |-> ChainId, data |-> NoData]

TokenTx(bal, g, n) ==
    [from |-> address1, to |-> TOKEN_ADDRESS, value |-> 0, gas |-> estimate_gas_cost,
     gasPrice |-> g, nonce |-> n, chainId |-> ChainId,
     data |-> [fn |-> "transfer", to |-> address2, amount |-> bal]]

AfterSendGasFee_Mutant == "tat_balance"

AfterSendGasFee == "sleep1"

\* an exception raised inside the try block of execute_transfer_cycle
Raise(e) ==
    /\ error' = e
    /\ pc' = IF CaughtAtCycle(e) THEN "except" ELSE "crashed"

\* failures any RPC call can end in
RpcErrors == {"Exception"}
CallErrors == {"ContractLogicError", "Exception"}

\* ---- the main loop -------------------------------------------------------

Init ==
    /\ pc = "loop_head"
    /\ running = TRUE
    /\ sigint = FALSE
    /\ farewell = FALSE
    /\ cycle_count = 0
    /\ error = "none"
    /\ caught = 0
    /\ needed = 0
    /\ gate_balance = Unread
    /\ gas_price = Unread
    /\ required_eth = Unread
    /\ sender_balance = Unread
    /\ balance = Unread
    /\ tx = NoTx
    /\ eth_sent = Unread
    /\ txCount = [a \in Accounts |-> 0]
    /\ broadcasts = <<>>
    /\ trace = <<>>

LoopHead ==
    /\ pc = "loop_head"
    /\ running => cycle_count < MaxCycles
    /\ IF running
       THEN /\ cycle_count' = cycle_count + 1
            /\ pc' = "report1"
            /\ farewell' = farewell
       ELSE /\ cycle_count' = cycle_count
            /\ pc' = "done"
            /\ farewell' = TRUE
    /\ error' = "none"
    /\ needed' = 0
    /\ gate_balance' = Unread
    /\ gas_price' = Unread
    /\ required_eth' = Unread
    /\ sender_balance' = Unread
    /\ balance' = Unread
    /\ tx' = NoTx
    /\ eth_sent' = Unread
    /\ trace' = <<>>
    /\ UNCHANGED <<running, sigint, caught, node>>

PostCycle ==
    /\ pc = "post_cycle"
    /\ pc' = IF running THEN "wait" ELSE "loop_head"
    /\ UNCHANGED <<proc, cycle_count, error, sgfLocals, gate_balance, balance, tx,
                   node, trace>>

Wait ==
    /\ pc = "wait"
    /\ pc' = "loop_head"
    /\ UNCHANGED <<proc, cycle_count, error, sgfLocals, gate_balance, balance, tx,
                   node, trace>>

Sigint ==
    /\ pc \notin {"exited", "done", "crashed"}
    /\ running' = FALSE
    /\ sigint' = TRUE
    /\ pc' = "exited"
    /\ UNCHANGED <<farewell, caught, cycle_count, error, sgfLocals, gate_balance, balance, tx,
                   node, trace>>

\* ---- execute_transfer_cycle ----------------------------------------------

Report1 ==
    /\ pc = "report1"
    /\ \/ /\ pc' = "gate"
          /\ trace' = Append(trace, "report")
          /\ error' = error
       \/ /\ \E e \in CallErrors : Raise(e)
          /\ trace' = trace
    /\ UNCHANGED <<proc, cycle_count, sgfLocals, gate_balance, balance, tx, node>>

Gate ==
    /\ pc = "gate"
    /\ \/ \E b \in TokenBalances :
            /\ gate_balance' = b
            /\ IF HasTokens(b)
               THEN pc' = "sgf_gas_price" /\ trace' = trace
               ELSE pc' = "post_cycle" /\ trace' = Append(trace, "nothing")
            /\ error' = error
       \/ /\ \E e \in CallErrors : Raise(e)
          /\ UNCHANGED <<gate_balance, trace>>
    /\ UNCHANGED <<proc, cycle_count, sgfLocals, balance, tx, node>>

Sleep1 ==
    /\ pc = "sleep1"
    /\ pc' = "tat_balance"
    /\ trace' = Append(trace, "wait")
    /\ UNCHANGED <<proc, cycle_count, error, sgfLocals, gate_balance, balance, tx, node>>

Sleep2 ==
    /\ pc = "sleep2"
    /\ pc' = "report2"
    /\ trace' = Append(trace, "wait")
    /\ UNCHANGED <<proc, cycle_count, error, sgfLocals, gate_balance, balance, tx, node>>

Report2 ==
    /\ pc = "report2"
    /\ \/ /\ pc' = "post_cycle"
          /\ trace' = Append(trace, "report")
          /\ error' = error
       \/ /\ \E e \in CallErrors : Raise(e)
          /\ trace' = trace
    /\ UNCHANGED <<proc, cycle_count, sgfLocals, gate_balance, balance, tx, node>>

Except ==
    /\ pc = "except"
    /\ pc' = "post_cycle"
    /\ caught' = caught + 1
    /\ UNCHANGED <<running, sigint, farewell, cycle_count, error, sgfLocals, gate_balance, balance, tx,
                   node, trace>>

\* ---- send_gas_fee --------------------------------------------------------

SgfGasPrice ==
    /\ pc = "sgf_gas_price"
    /\ \/ \E g \in GasPrices :
            /\ gas_price' = g
            /\ required_eth' = estimate_gas_cost * g
            /\ pc' = "sgf_balance"
            /\ error' = error
       \/ /\ \E e \in RpcErrors : Raise(e)
          /\ UNCHANGED <<gas_price, required_eth>>
    /\ UNCHANGED <<proc, cycle_count, needed, sender_balance, eth_sent, gate_balance,
                   balance, tx, node, trace>>

SgfBalance ==
    /\ pc = "sgf_balance"
    /\ \/ \E b \in NativeBalances :
            /\ sender_balance' = b
            /\ pc' = "sgf_check"
            /\ error' = error
       \/ /\ \E e \in RpcErrors : Raise(e)
          /\ sender_balance' = sender_balance
    /\ UNCHANGED <<proc, cycle_count, needed, gas_price, required_eth, eth_sent,
                   gate_balance, balance, tx, node, trace>>

SgfCheck ==
    /\ pc = "sgf_check"
    /\ IF InsufficientBalance(sender_balance, required_eth)
       THEN /\ needed' = required_eth - sender_balance
            /\ Raise("ValueError:insufficient")
       ELSE /\ needed' = needed
            /\ pc' = "sgf_build"
            /\ error' = error
    /\ UNCHANGED <<proc, cycle_count, gas_price, required_eth, sender_balance, eth_sent,
                   gate_balance, balance, tx, node, trace>>

SgfBuild ==
    /\ pc = "sgf_build"
    /\ \/ /\ tx' = GasFeeTx(gas_price, required_eth, txCount[address2])
          /\ pc' = "sgf_send"
          /\ error' = error
       \/ /\ \E e \in RpcErrors : Raise(e)
          /\ tx' = tx
    /\ UNCHANGED <<proc, cycle_count, sgfLocals, gate_balance, balance, node, trace>>

\* the node refuses a nonce that is already mined, takes a transaction with the
\* nonce of one it already holds only as a replacement at a higher gas price,
\* and may refuse anything else
NodeMayAccept(t) ==
    /\ t.nonce >= txCount[t.from]
    /\ \A i \in 1..Len(broadcasts) :
          (broadcasts[i].from = t.from /\ broadcasts[i].nonce = t.nonce)
              => t.gasPrice > broadcasts[i].gasPrice

SgfSend ==
    /\ pc = "sgf_send"
    /\ \/ /\ NodeMayAccept(tx)
          /\ broadcasts' = Append(broadcasts, tx)
          /\ eth_sent' = required_eth
          /\ trace' = Append(trace, "gas_broadcast")
          /\ pc' = AfterSendGasFee
          /\ error' = error
       \/ /\ \E e \in RpcErrors : Raise(e)
          /\ UNCHANGED <<broadcasts, eth_sent, trace>>
    /\ UNCHANGED <<proc, cycle_count, gas_price, required_eth, sender_balance, needed,
                   gate_balance, balance, tx, txCount>>

\* ---- transfer_all_tokens -------------------------------------------------

TatBalance ==
    /\ pc = "tat_balance"
    /\ \/ \E b \in TokenBalances :
            /\ balance' = b
            /\ pc' = "tat_check"
            /\ error' = error
       \/ /\ \E e \in CallErrors : Raise(e)
          /\ balance' = balance
    /\ UNCHANGED <<proc, cycle_count, sgfLocals, gate_balance, tx, node, trace>>

TatCheck ==
    /\ pc = "tat_check"
    /\ IF EmptyBalance(balance)
       THEN Raise("ValueError:empty")
       ELSE pc' = "tat_build" /\ error' = error
    /\ UNCHANGED <<proc, cycle_count, sgfLocals, gate_balance, balance, tx, node, trace>>

TatBuild ==
    /\ pc = "tat_build"
    /\ \/ \E g \in GasPrices :
            /\ tx' = TokenTx(balance, g, txCount[address1])
            /\ pc' = "tat_send"
            /\ error' = error
       \/ /\ \E e \in CallErrors : Raise(e)
          /\ tx' = tx
    /\ UNCHANGED <<proc, cycle_count, sgfLocals, gate_balance, balance, node, trace>>

TatSend ==
    /\ pc = "tat_send"
    /\ \/ /\ NodeMayAccept(tx)
          /\ broadcasts' = Append(broadcasts, tx)
          /\ trace' = Append(trace, "sweep_broadcast")
          /\ pc' = "sleep2"
          /\ error' = error
       \/ /\ \E e \in CallErrors : Raise(e)
          /\ UNCHANGED <<broadcasts, trace>>
    /\ UNCHANGED <<proc, cycle_count, sgfLocals, gate_balance, balance, tx, txCount>>

\* ---- the node ------------------------------------------------------------

\* the node mines the broadcast transaction of account a that is next in line
Confirm(a) ==
    /\ pc \notin {"exited", "done", "crashed"}
    /\ \E i \in 1..Len(broadcasts) :
          broadcasts[i].from = a /\ broadcasts[i].nonce = txCount[a]
    /\ txCount' = [txCount EXCEPT ![a] = @ + 1]
    /\ UNCHANGED <<pc, proc, cycle_count, error, sgfLocals, gate_balance, balance, tx,
                   broadcasts, trace>>

Mine == \E a \in Accounts : Confirm(a)

\* ---- specification -------------------------------------------------------

Next ==
    \/ LoopHead
    \/ Report1
    \/ Gate
    \/ SgfGasPrice
    \/ SgfBalance
    \/ SgfCheck
    \/ SgfBuild
    \/ SgfSend
    \/ Sleep1
    \/ TatBalance
    \/ TatCheck
    \/ TatBuild
    \/ TatSend
    \/ Sleep2
    \/ Report2
    \/ Except
    \/ PostCycle
    \/ Wait
    \/ Sigint
    \/ Mine

Spec == Init /\ [][Next]_vars

\* ---- helpers of the properties -------------------------------------------

Last(q) == q[Len(q)]

\* the step appends a transaction of account a to the node's broadcasts
Broadcasts(a) ==
    /\ Len(broadcasts') = Len(broadcasts) + 1
    /\ Last(broadcasts').from = a

IsPrefix(p, q) ==
    /\ Len(p) <= Len(q)
    /\ \A i \in 1..Len(p) : p[i] = q[i]

FullCycle == <<"report", "gas_broadcast", "wait", "sweep_broadcast", "wait", "report">>

EmptyCycle == <<"report", "nothing">>

AfterCycle == {"post_cycle", "wait", "loop_head"}

\* ---- C1 ------------------------------------------------------------------

\* C1: when the balance of address2 read by send_gas_fee is strictly below
\* 150000 * the gas price it read, the call raises the insufficient-balance
\* error (carrying the shortfall) and broadcasts nothing; a gas-fee broadcast
\* happens only with a read balance of at least 150000 * gas price.
C1_InsufficientBalanceFails ==
    /\ [](error = "ValueError:insufficient" =>
            /\ sender_balance < 150000 * gas_price
            /\ needed = 150000 * gas_price - sender_balance
            /\ eth_sent = Unread
            /\ tx = NoTx)
    /\ [][(pc = "sgf_check" /\ sender_balance < 150000 * gas_price /\ pc' # pc /\ ~sigint') =>
            /\ pc' = "except"
            /\ error' = "ValueError:insufficient"
            /\ broadcasts' = broadcasts]_vars
    /\ [][Broadcasts(address2) =>
            sender_balance # Unread /\ sender_balance >= 150000 * gas_price]_vars

C1_Witness ==
    /\ pc = "except"
    /\ error = "ValueError:insufficient"
    /\ sender_balance = 0
    /\ needed = required_eth
    /\ needed > 0

\* ---- C2 ------------------------------------------------------------------

\* C2: when the token balance of address1 read by transfer_all_tokens is 0,
\* the call raises the empty-balance error and builds and broadcasts no
\* transaction; a token transaction exists only for a non-zero read balance.
C2_EmptyBalanceFails ==
    /\ [](error = "ValueError:empty" => balance = 0 /\ tx.from # address1)
    /\ [](tx.from = address1 => balance > 0 /\ tx.data.amount = balance)
    /\ [][(pc = "tat_check" /\ balance = 0 /\ pc' # pc /\ ~sigint') =>
            /\ pc' = "except"
            /\ error' = "ValueError:empty"
            /\ tx' = tx
            /\ broadcasts' = broadcasts]_vars
    /\ [][Broadcasts(address1) => balance > 0]_vars

C2_Witness ==
    /\ pc = "except"
    /\ error = "ValueError:empty"
    /\ balance = 0
    /\ gate_balance > 0

\* ---- C3 ------------------------------------------------------------------

\* C3: in a cycle whose gate reads a token balance of 0, neither send_gas_fee
\* nor transfer_all_tokens is entered, nothing is broadcast, and the cycle
\* returns without an exception.
C3_ZeroBalanceCycleSendsNothing ==
    /\ [](gate_balance = 0 =>
            /\ trace = EmptyCycle
            /\ error = "none"
            /\ pc \in AfterCycle \cup {"exited"}
            /\ gas_price = Unread /\ sender_balance = Unread /\ eth_sent = Unread
            /\ balance = Unread
            /\ tx = NoTx)
    /\ [][(gate_balance' = 0 \/ pc \in {"report1", "gate"}) =>
            broadcasts' = broadcasts]_vars

C3_Witness ==
    /\ gate_balance = 0
    /\ pc = "post_cycle"
    /\ trace = EmptyCycle
    /\ error = "none"

\* ---- C4 ------------------------------------------------------------------

\* C4: every error raised in a cycle is caught by the cycle; after it the loop
\* runs on through the post-cycle check and the wait into the next cycle, and
\* only SIGINT ends the loop.
C4_ErrorsNeverEndTheLoop ==
    /\ [](pc # "crashed")
    /\ [](pc \in {"exited", "done"} => sigint)
    /\ [](error # "none" /\ ~sigint => pc \in {"except"} \cup AfterCycle /\ running)
    /\ [][(error # "none" /\ ~sigint' /\ pc' # pc) =>
            /\ pc = "except" => pc' = "post_cycle" /\ caught' = caught + 1
            /\ pc = "post_cycle" => pc' = "wait"
            /\ pc = "wait" => pc' = "loop_head"
            /\ pc = "loop_head" => pc' = "report1" /\ cycle_count' = cycle_count + 1]_vars
    /\ [][(error' # "none" /\ error = "none") => pc' = "except"]_vars

C4_Witness ==
    /\ caught >= 1
    /\ cycle_count = 2
    /\ pc = "gate"
    /\ running

\* ---- C5 ------------------------------------------------------------------

\* C5: a cycle whose gate reads a balance > 0 and in which nothing fails does
\* report, gas-fee broadcast, wait, sweep broadcast, wait, report, in this
\* order; in every cycle a sweep broadcast comes after a successful gas-fee
\* broadcast of the same cycle.
C5_CycleOrder ==
    /\ []((gate_balance > 0 /\ error = "none" /\ pc \in AfterCycle) => trace = FullCycle)
    /\ [](IsPrefix(trace, FullCycle) \/ trace = EmptyCycle)
    /\ [](\A i \in 1..Len(trace) :
            trace[i] = "sweep_broadcast" => \E j \in 1..(i - 1) : trace[j] = "gas_broadcast")
    /\ [][Broadcasts(address1) =>
            /\ eth_sent # Unread
            /\ Len(broadcasts) > 0
            /\ Last(broadcasts).from = address2
            /\ Last(trace) = "wait"
            /\ trace' = Append(trace, "sweep_broadcast")]_vars
    /\ [][Broadcasts(address2) => trace' = Append(trace, "gas_broadcast")]_vars

C5_Witness ==
    /\ trace = FullCycle
    /\ pc = "post_cycle"
    /\ gate_balance > 0
    /\ error = "none"
    /\ Len(broadcasts) >= 2

\* ---- C6 ------------------------------------------------------------------

\* C6: the loop ends only after SIGINT, and after every SIGINT the process
\* prints the farewell line before it exits.
C6_FarewellAfterCancel ==
    pc \in {"exited", "done"} => sigint /\ farewell

\* ---- C7 ------------------------------------------------------------------

\* C7: SIGINT only flips running from TRUE to FALSE; the position of the main
\* thread is left alone, so a cycle in flight runs on to its end.
C7_SigintOnlyFlipsFlag ==
    [][(running /\ ~running') => pc' = pc]_vars

\* ---- C8 ------------------------------------------------------------------

\* C8: every transaction broadcast by send_gas_fee goes from address2 to
\* address1 with value 150000 * g and gasPrice g, g the gas price sample of
\* the call, gas 21000 and chainId 10; the amount returned is the value sent.
C8_GasFeeTxShape ==
    /\ [](\A i \in 1..Len(broadcasts) :
            broadcasts[i].from = address2 =>
                /\ broadcasts[i].to = address1
                /\ broadcasts[i].value = 150000 * broadcasts[i].gasPrice
                /\ broadcasts[i].gas = 21000
                /\ broadcasts[i].chainId = 10
                /\ broadcasts[i].data = NoData)
    /\ [][Broadcasts(address2) =>
            /\ Last(broadcasts').gasPrice = gas_price
            /\ Last(broadcasts').value = 150000 * gas_price
            /\ eth_sent' = Last(broadcasts').value]_vars
    /\ [](eth_sent # Unread => eth_sent = 150000 * gas_price)

C8_Witness ==
    /\ pc = "sleep1"
    /\ Len(broadcasts) > 0
    /\ Last(broadcasts).from = address2
    /\ Last(broadcasts).gasPrice = 2
    /\ Last(broadcasts).value = 300000
    /\ eth_sent = 300000

\* ---- C9 ------------------------------------------------------------------

\* C9: when send_gas_fee has broadcast, the balance of address2 it read covers
\* the value sent plus the fee of the transaction, 21000 * gas price.
C9_BalanceCoversValueAndFee ==
    pc = "sleep1" => sender_balance >= eth_sent + 21000 * gas_price

\* ---- C10 -----------------------------------------------------------------

\* C10: no two transactions broadcast by the same account carry the same nonce.
C10_NoncesUnique ==
    \A i, j \in 1..Len(broadcasts) :
        (i # j /\ broadcasts[i].from = broadcasts[j].from)
            => broadcasts[i].nonce # broadcasts[j].nonce

====
